---------------------------- MODULE Spec2Model ----------------------------
(***************************************************************************)
(* Model of the work-factory API service (crates/api-service/src/main.rs): *)
(* the batch accumulator (BatchQueue), the timer-driven batch_flusher, the *)
(* three enqueue helpers (enqueue_job, enqueue_batch_jobs,                 *)
(* enqueue_job_with_batching) and the bounded connection pool they share.  *)
(*                                                                         *)
(* Tasks are the HTTP handler tasks (Producers), the flusher task and the  *)
(* main task.  Every block of code that runs under the BatchQueue mutex    *)
(* without an await inside it is one atomic action: the tokio Mutex makes  *)
(* it atomic with respect to every other such block.  Every await that can *)
(* suspend (pool.get(), client.enqueue(), sleep) separates two actions.    *)
(*                                                                         *)
(* Time is discrete: Tick is one time unit.  A sleeping flusher wakes when *)
(* its timer has run out, and time does not pass beyond that point before  *)
(* it has woken (the runtime wakes a task whose sleep has elapsed); time   *)
(* passes freely while a task waits for a connection or for the broker.    *)
(*                                                                         *)
(* The module also holds the worker service (crates/worker-service): its   *)
(* main task, its signal task and the consumption loop, with variables of  *)
(* their own; and the job codec of crates/job-types (job_type, to_args,    *)
(* from_job_type), followed for one job from construction to decoding.     *)
(***************************************************************************)
EXTENDS Integers, Sequences, FiniteSets, TLC

\* ------------------------------------------------------------ bounds
NumProducers == 2      \* concurrent HTTP handler tasks
MaxJobs == 3           \* payloads created in one run
MaxBatchLen == 2       \* longest body of a POST /jobs/batch request
\* ------------------------------------------------- configuration (scaled)
max_batch_size == 2    \* BATCH_MAX_SIZE (default 100)
max_batch_delay_ms == 2  \* BATCH_MAX_DELAY_MS (default 50), in time units
max_size == 2          \* Pool::builder(..).max_size(50)
worker_concurrency == 1  \* WORKER_CONCURRENCY (default 500)
MaxFetched == 2        \* jobs the worker fetches in one run
drain_deadline == 3    \* Duration::from_secs(30) of the shutdown select, in time units

Producers == 1..NumProducers
Flusher == 0
Main == -1
Callers == Producers \cup {Flusher}     \* tasks that call enqueue_batch_jobs
Tasks == Callers \cup {Main}
Jobs == 1..MaxJobs          \* payload tokens; 0 stands for no job, no id, no connection
AgeCap == max_batch_delay_ms + 2

VARIABLES
  auto_batch_enabled, \* BatchConfig.auto_batch_enabled
  pending_jobs,       \* BatchQueue.pending_jobs
  pc,                 \* where each task stands
  frame,              \* the locals of each task's current call (see EmptyFrame)
  client,             \* the pooled connection a task holds (0: none)
  result,             \* outcome of the task's last finished call
  slots,              \* pool: idle connections, oldest first
  size,               \* pool: connections created so far (live handles)
  broker,             \* what the broker received, in order
  timer,              \* time units left of the flusher's sleep
  next_job,           \* next unused payload token
  next_id,            \* next unused identifier of Job::new
  \* observation (history) variables
  oldest_age,         \* time units the head of pending_jobs has been pending
  snap_count,         \* per job: number of flush() results that contained it
  returned_id,        \* per job: the identifier returned to its caller
  added,              \* the jobs BatchQueue::add has been called with
  acq_failed,         \* some pool.get() has failed
  write_failed,       \* some client.enqueue() has failed
  \* the worker process (worker-service)
  wphase,             \* where its main task stands
  sigtask,            \* the signal task: "listening" or "done"
  permit,             \* the Notify holds a permit (notify_one before notified())
  wrun,               \* the task running worker.run(&["default"])
  inflight,           \* per fetched job: the job while it is being handled
  outcome,            \* per fetched job: what was reported to the broker
  fetched,            \* number of jobs fetched so far
  drain_clock,        \* time units since main entered the shutdown select
  shutdown_report,    \* what main logged at the end of the shutdown select
  \* observation (history) variables of the worker
  sigjobs,            \* the jobs in flight when the signal arrived
  sig_done_at,        \* drain_clock when the last of sigjobs was reported (-1: not yet)
  \* one job on its way from a producer to the worker (job-types)
  cpc,                \* how far it is: "idle", "built", "encoded", "decoded"
  payload,            \* the JobPayload the producer built
  wire,               \* the job as the broker holds it: kind and args
  parsed,             \* what JobPayload::from_job_type made of it
  \* the end of the API process
  terminated,         \* main has returned or the process was killed
  drop_warned         \* a warning about dropped pending jobs was logged

\* the API service
avars == <<auto_batch_enabled, pending_jobs, pc, frame, client, result, slots, size,
           broker, timer, next_job, next_id, oldest_age, snap_count, returned_id,
           added, acq_failed, write_failed>>

\* the worker service
wvars == <<wphase, sigtask, permit, wrun, inflight, outcome, fetched, drain_clock,
           shutdown_report, sigjobs, sig_done_at>>

\* the job codec
cvars == <<cpc, payload, wire, parsed>>

\* the end of the API process
svars == <<terminated, drop_warned>>

vars == <<avars, wvars, cvars, svars>>

\* The locals of a call; they go out of scope when the call returns.
\*   call      which helper the handler called: "one" (enqueue_job), "auto"
\*             (enqueue_job_with_batching), "batch" (enqueue_batch_jobs);
\*             "flush" for the flusher
\*   payload   the payload of a single-job request
\*   job_id    job_id of enqueue_job / enqueue_job_with_batching
\*   payloads  the payloads argument of enqueue_batch_jobs
\*   job_ids   the job_ids vector of enqueue_batch_jobs
\*   sent      jobs already written by a send loop
\*   observed  (observation) pending_jobs as seen when should_flush() was true
\*   acquired  (observation) pool.get() successes of this call
EmptyFrame ==
  [call |-> "none", payload |-> 0, job_id |-> 0, payloads |-> <<>>,
   job_ids |-> <<>>, sent |-> 0, observed |-> <<>>, acquired |-> 0]

Range(s) == {s[i] : i \in 1..Len(s)}

Min(a, b) == IF a < b THEN a ELSE b

Occurrences(s, j) == Cardinality({i \in 1..Len(s) : s[i] = j})

\* ------------------------------------------------------------ BatchQueue
\* BatchQueue::add
add(q, job) == Append(q, job)

\* a should_flush that answers true only at the exact threshold
should_flush_exact(q) == Len(q) = max_batch_size

\* BatchQueue::should_flush
should_flush(q) == Len(q) >= max_batch_size

\* a flush that hands the jobs back last in, first out
flush_result_reversed(q) == [i \in 1..Len(q) |-> q[Len(q) + 1 - i]]

\* BatchQueue::flush: the value returned
flush_result(q) == q

\* a flush that hands the jobs out but leaves them in the queue
flush_rest_keeps(q) == q

\* BatchQueue::flush: the queue left behind
flush_rest(q) == <<>>

\* BatchQueue::len
len(q) == Len(q)

\* a flusher that waits for a full batch like the producers do
has_jobs_when_full(q) == should_flush(q)

\* batch_flusher's test under the lock: queue.len() > 0
has_jobs(q) == len(q) > 0

\* ------------------------------------------------------------ pool
\* a pool that creates a connection whenever none is idle
CanGetUnbounded == TRUE

\* Pool::get can hand out a connection: an idle one, or a new one below max_size
CanGet == Len(slots) > 0 \/ size < max_size

\* Pool::get has to create the connection it hands out
MustCreate == Len(slots) = 0 /\ size < max_size

\* the connection Pool::get hands out
GetConn == IF Len(slots) > 0 THEN Head(slots) ELSE size + 1

\* the pool after Pool::get handed out GetConn
SlotsAfterGet == IF Len(slots) > 0 THEN Tail(slots) ELSE slots

SizeAfterGet == IF Len(slots) > 0 THEN size ELSE size + 1

\* dropping a pooled connection returns it to the idle slots
SlotsAfterRelease(c) == Append(slots, c)

\* ------------------------------------------------------------ job-types
\* the variants of JobPayload
Variants == {"Add", "Subtract", "Multiply", "Divide"}

\* f64 operands: zero, a finite number other than zero, NaN and an infinity
F64 == {"0.0", "1.5", "NaN", "inf"}

\* the f64 values that are finite
Finite == {"0.0", "1.5"}

\* Option<String>: None, or Some of a string
RequestIds == {"None", "req-1"}

\* struct MathArgs
MathArgs == [a : F64, b : F64, request_id : RequestIds]

\* enum JobPayload
JobPayloads == [variant : Variants, args : MathArgs]

\* no payload
NoPayload == [variant |-> "", args |-> [a |-> "", b |-> "", request_id |-> ""]]

\* Err of JobPayload::from_job_type
ParseError == [variant |-> "Err", args |-> [a |-> "", b |-> "", request_id |-> ""]]

\* a job_type that gives subtractions the tag of additions
job_type_shared(x) ==
  CASE x.variant = "Add"      -> "math_add"
    [] x.variant = "Subtract" -> "math_add"
    [] x.variant = "Multiply" -> "math_multiply"
    [] x.variant = "Divide"   -> "math_divide"

\* JobPayload::job_type
job_type(x) ==
  CASE x.variant = "Add"      -> "math_add"
    [] x.variant = "Subtract" -> "math_subtract"
    [] x.variant = "Multiply" -> "math_multiply"
    [] x.variant = "Divide"   -> "math_divide"

\* serde_json::to_value of an f64: a JSON number, and null for NaN and the
\* infinities, which JSON cannot write
f64_to_value(f) == IF f \in Finite THEN f ELSE "null"

\* serde_json::to_value of an Option<String>: null or a JSON string
option_to_value(r) == IF r = "None" THEN "null" ELSE r

\* JobPayload::to_args: serde_json::to_value(args), a JSON object with the
\* three fields of MathArgs; it is Ok for every MathArgs
to_args(x) ==
  [a |-> f64_to_value(x.args.a),
   b |-> f64_to_value(x.args.b),
   request_id |-> option_to_value(x.args.request_id)]

\* serde_json::from_value::<MathArgs>(v) is Ok: a and b are JSON numbers and
\* request_id is null or a JSON string
is_math_args(v) ==
  v.a \in Finite /\ v.b \in Finite /\ v.request_id \in {"null", "req-1"}

\* serde_json::from_value::<MathArgs>(v), when it is Ok
from_value(v) ==
  [a |-> v.a, b |-> v.b,
   request_id |-> IF v.request_id = "null" THEN "None" ELSE v.request_id]

\* the MathArgs arm of from_job_type: from_value(args).context(..)?
parse_as(variant, v) ==
  IF is_math_args(v) THEN [variant |-> variant, args |-> from_value(v)] ELSE ParseError

\* JobPayload::from_job_type
from_job_type(tag, v) ==
  CASE tag = "math_add"      -> parse_as("Add", v)
    [] tag = "math_subtract" -> parse_as("Subtract", v)
    [] tag = "math_multiply" -> parse_as("Multiply", v)
    [] tag = "math_divide"   -> parse_as("Divide", v)
    [] OTHER                 -> ParseError

\* ------------------------------------------------------------ worker jobs
FetchIds == 1..MaxFetched

\* the kind() of a fetched job: the four registered tags and one that is not
Tags == {"math_add", "math_subtract", "math_multiply", "math_divide", "other"}

\* job.args(): no argument at all; a first argument that is no MathArgs (as
\* to_args writes a NaN operand); a MathArgs with b = 0.0; another MathArgs
Args ==
  { <<>>,
    << [a |-> "null", b |-> "1.5", request_id |-> "null"] >>,
    << [a |-> "1.5", b |-> "0.0", request_id |-> "null"] >>,
    << [a |-> "1.5", b |-> "1.5", request_id |-> "req-1"] >> }

JobShapes == [tag : Tags, args : Args]

\* no job
NoShape == [tag |-> "", args |-> <<>>]

\* the codec starts without a job
CodecStart ==
  /\ cpc = "idle"
  /\ payload = NoPayload
  /\ wire = NoShape
  /\ parsed = NoPayload

\* a worker whose consumption loop runs before connect() has returned
WorkerStartRunning ==
  /\ wphase = "connecting"
  /\ sigtask = "listening"
  /\ permit = FALSE
  /\ wrun = "running"
  /\ inflight = [j \in FetchIds |-> NoShape]
  /\ outcome = [j \in FetchIds |-> "none"]
  /\ fetched = 0
  /\ drain_clock = 0
  /\ shutdown_report = "none"
  /\ sigjobs = {}
  /\ sig_done_at = -1

\* the worker process starts: main is about to connect, the signal task listens
WorkerStart ==
  /\ wphase = "connecting"
  /\ sigtask = "listening"
  /\ permit = FALSE
  /\ wrun = "none"
  /\ inflight = [j \in FetchIds |-> NoShape]
  /\ outcome = [j \in FetchIds |-> "none"]
  /\ fetched = 0
  /\ drain_clock = 0
  /\ shutdown_report = "none"
  /\ sigjobs = {}
  /\ sig_done_at = -1

\* ------------------------------------------------------------ initial state
\* main has built the pool, holds its test connection (_test_conn lives to the
\* end of main), created the empty BatchQueue and spawned the flusher.
Init ==
  /\ auto_batch_enabled \in BOOLEAN
  /\ pending_jobs = <<>>
  /\ pc = [t \in Callers |-> IF t = Flusher THEN "sleep" ELSE "idle"]
  /\ frame = [t \in Callers |-> EmptyFrame]
  /\ client = [t \in Tasks |-> IF t = Main THEN 1 ELSE 0]
  /\ result = [t \in Callers |-> "none"]
  /\ slots = <<>>
  /\ size = 1
  /\ broker = <<>>
  /\ timer = max_batch_delay_ms
  /\ next_job = 1
  /\ next_id = 1
  /\ oldest_age = 0
  /\ snap_count = [j \in Jobs |-> 0]
  /\ returned_id = [j \in Jobs |-> 0]
  /\ added = {}
  /\ acq_failed = FALSE
  /\ write_failed = FALSE
  /\ WorkerStart
  /\ CodecStart
  /\ terminated = FALSE
  /\ drop_warned = FALSE

\* ------------------------------------------------------------ helpers
\* snap_count after one more flush() returned snapshot s
Counted(s) == [j \in Jobs |-> snap_count[j] + Occurrences(s, j)]

\* identifiers job_ids[1..n] of n successive Job::new calls
FreshIds(n) == [i \in 1..n |-> next_id + i - 1]

\* a response that, for a batch whose write failed, still hands back the
\* identifiers of the jobs written before the failure
ReturnedPartial(p, ok) ==
  LET f == frame[p]
      n == IF ok THEN Len(f.payloads) ELSE Min(f.sent, Len(f.job_ids))
  IN
  IF f.call = "batch"
    THEN [j \in Jobs |-> IF \E i \in 1..n : f.payloads[i] = j
                         THEN f.job_ids[CHOOSE i \in 1..n : f.payloads[i] = j]
                         ELSE returned_id[j]]
    ELSE IF ok THEN [returned_id EXCEPT ![f.payload] = f.job_id] ELSE returned_id

\* the identifiers a finished call of producer p hands back to its HTTP client:
\* Ok(job_ids) of enqueue_batch_jobs for batch_handler, Ok(job_id) otherwise
Returned(p, ok) ==
  LET f == frame[p] IN
  IF ~ok THEN returned_id
  ELSE IF f.call = "batch"
    THEN [j \in Jobs |-> IF j \in Range(f.payloads)
                         THEN f.job_ids[CHOOSE i \in 1..Len(f.payloads) : f.payloads[i] = j]
                         ELSE returned_id[j]]
    ELSE [returned_id EXCEPT ![f.payload] = f.job_id]

\* the end of a call of task t: its locals go out of scope; a producer answers
\* its request, the flusher logs a failure (if any) and sleeps again
Return(t, ok) ==
  /\ result' = [result EXCEPT ![t] = IF ok THEN "ok" ELSE "err"]
  /\ frame' = [frame EXCEPT ![t] = EmptyFrame]
  /\ IF t = Flusher
       THEN /\ pc' = [pc EXCEPT ![t] = "sleep"]
            /\ timer' = max_batch_delay_ms
            /\ returned_id' = returned_id
       ELSE /\ pc' = [pc EXCEPT ![t] = "idle"]
            /\ timer' = timer
            /\ returned_id' = Returned(t, ok)

\* ------------------------------------------------------------ handlers
\* add_handler / subtract_handler / multiply_handler / divide_handler: build the
\* payload and call enqueue_job_with_batching or enqueue_job, each of which
\* begins with Job::new (a fresh identifier).  to_args() cannot fail for
\* MathArgs (serde_json maps a non-finite f64 to null), so it has no error exit.
SingleHandler(p) ==
  /\ pc[p] = "idle"
  /\ next_job <= MaxJobs
  /\ frame' = [frame EXCEPT ![p] =
                 [EmptyFrame EXCEPT !.call = IF auto_batch_enabled THEN "auto" ELSE "one",
                                    !.payload = next_job,
                                    !.job_id = next_id]]
  /\ next_job' = next_job + 1
  /\ next_id' = next_id + 1
  /\ pc' = [pc EXCEPT ![p] = IF auto_batch_enabled THEN "ab_add" ELSE "one_get"]
  /\ result' = [result EXCEPT ![p] = "none"]
  /\ UNCHANGED <<cvars, svars, wvars, auto_batch_enabled, pending_jobs, client, slots, size, broker, timer,
                 oldest_age, snap_count, returned_id, added, acq_failed, write_failed>>

\* a batch_handler without its test for an empty request
BatchHandlerForwardsEmpty(p, n) ==
  /\ pc[p] = "idle"
  /\ next_job + n - 1 <= MaxJobs
  /\ result' = [result EXCEPT ![p] = "none"]
  /\ frame' = [frame EXCEPT ![p] =
                 [EmptyFrame EXCEPT !.call = "batch",
                                    !.payloads = [i \in 1..n |-> next_job + i - 1]]]
  /\ next_job' = next_job + n
  /\ pc' = [pc EXCEPT ![p] = "eb_call"]
  /\ UNCHANGED <<cvars, svars, wvars, auto_batch_enabled, pending_jobs, client, slots, size,
                 broker, timer, next_id, oldest_age, snap_count, returned_id, added,
                 acq_failed, write_failed>>

\* batch_handler: an empty request is answered 400 before any enqueue work,
\* any other is handed to enqueue_batch_jobs
BatchHandler(p, n) ==
  /\ pc[p] = "idle"
  /\ next_job + n - 1 <= MaxJobs
  /\ IF n = 0
       THEN /\ result' = [result EXCEPT ![p] = "rejected"]
            /\ UNCHANGED <<pc, frame, next_job>>
       ELSE /\ result' = [result EXCEPT ![p] = "none"]
            /\ frame' = [frame EXCEPT ![p] =
                           [EmptyFrame EXCEPT !.call = "batch",
                                              !.payloads = [i \in 1..n |-> next_job + i - 1]]]
            /\ next_job' = next_job + n
            /\ pc' = [pc EXCEPT ![p] = "eb_call"]
  /\ UNCHANGED <<cvars, svars, wvars, auto_batch_enabled, pending_jobs, client, slots, size, broker, timer,
                 next_id, oldest_age, snap_count, returned_id, added, acq_failed,
                 write_failed>>

\* ------------------------------------------------------------ enqueue_job
\* pool.get() succeeds
EnqueueJobGet(p) ==
  /\ pc[p] = "one_get"
  /\ CanGet
  /\ client' = [client EXCEPT ![p] = GetConn]
  /\ slots' = SlotsAfterGet
  /\ size' = SizeAfterGet
  /\ frame' = [frame EXCEPT ![p].acquired = @ + 1]
  /\ pc' = [pc EXCEPT ![p] = "one_send"]
  /\ UNCHANGED <<cvars, svars, wvars, auto_batch_enabled, pending_jobs, result, broker, timer, next_job,
                 next_id, oldest_age, snap_count, returned_id, added, acq_failed,
                 write_failed>>

\* pool.get() fails: FaktoryManager::create could not connect
EnqueueJobGetFail(p) ==
  /\ pc[p] = "one_get"
  /\ MustCreate
  /\ acq_failed' = TRUE
  /\ Return(p, FALSE)
  /\ UNCHANGED <<cvars, svars, wvars, auto_batch_enabled, pending_jobs, client, slots, size, broker,
                 next_job, next_id, oldest_age, snap_count, added, write_failed>>

\* an enqueue_job that writes the job twice
EnqueueJobSendTwice(p) ==
  /\ pc[p] = "one_send"
  /\ broker' = broker \o
       << [job |-> frame[p].payload, id |-> frame[p].job_id, conn |-> client[p]],
          [job |-> frame[p].payload, id |-> frame[p].job_id, conn |-> client[p]] >>
  /\ frame' = [frame EXCEPT ![p].sent = 1]
  /\ pc' = [pc EXCEPT ![p] = "one_ret"]
  /\ UNCHANGED <<cvars, svars, wvars, auto_batch_enabled, pending_jobs, client, result, slots, size, timer,
                 next_job, next_id, oldest_age, snap_count, returned_id, added,
                 acq_failed, write_failed>>

\* client.enqueue(job) succeeds
EnqueueJobSend(p) ==
  /\ pc[p] = "one_send"
  /\ broker' = Append(broker, [job |-> frame[p].payload, id |-> frame[p].job_id,
                               conn |-> client[p]])
  /\ frame' = [frame EXCEPT ![p].sent = 1]
  /\ pc' = [pc EXCEPT ![p] = "one_ret"]
  /\ UNCHANGED <<cvars, svars, wvars, auto_batch_enabled, pending_jobs, client, result, slots, size, timer,
                 next_job, next_id, oldest_age, snap_count, returned_id, added,
                 acq_failed, write_failed>>

\* an enqueue_job that answers Ok(job_id) although client.enqueue failed
EnqueueJobSendFailReportsOk(p) ==
  /\ pc[p] = "one_send"
  /\ write_failed' = TRUE
  /\ slots' = SlotsAfterRelease(client[p])
  /\ client' = [client EXCEPT ![p] = 0]
  /\ Return(p, TRUE)
  /\ UNCHANGED <<cvars, svars, wvars, auto_batch_enabled, pending_jobs, size, broker, next_job, next_id,
                 oldest_age, snap_count, added, acq_failed>>

\* client.enqueue(job) fails: the error is returned and client is dropped
EnqueueJobSendFail(p) ==
  /\ pc[p] = "one_send"
  /\ write_failed' = TRUE
  /\ slots' = SlotsAfterRelease(client[p])
  /\ client' = [client EXCEPT ![p] = 0]
  /\ Return(p, FALSE)
  /\ UNCHANGED <<cvars, svars, wvars, auto_batch_enabled, pending_jobs, size, broker, next_job, next_id,
                 oldest_age, snap_count, added, acq_failed>>

\* an enqueue_job whose connection is never given back (held past the return)
EnqueueJobReturnLeaks(p) ==
  /\ pc[p] = "one_ret"
  /\ Return(p, TRUE)
  /\ UNCHANGED <<cvars, svars, wvars, auto_batch_enabled, pending_jobs, client, slots, size, broker,
                 next_job, next_id, oldest_age, snap_count, added, acq_failed,
                 write_failed>>

\* Ok(job_id): client is dropped at the end of the function
EnqueueJobReturn(p) ==
  /\ pc[p] = "one_ret"
  /\ slots' = SlotsAfterRelease(client[p])
  /\ client' = [client EXCEPT ![p] = 0]
  /\ Return(p, TRUE)
  /\ UNCHANGED <<cvars, svars, wvars, auto_batch_enabled, pending_jobs, size, broker, next_job, next_id,
                 oldest_age, snap_count, added, acq_failed, write_failed>>

\* ------------------------------------------------- enqueue_job_with_batching
\* first critical section: queue.add(payload); queue.should_flush().  When the
\* batch is not full the function returns Ok(job_id) at once.
BatchAdd(p) ==
  /\ pc[p] = "ab_add"
  /\ pending_jobs' = add(pending_jobs, frame[p].payload)
  /\ added' = added \cup {frame[p].payload}
  /\ IF should_flush(pending_jobs')
       THEN /\ pc' = [pc EXCEPT ![p] = "ab_flush"]
            /\ frame' = [frame EXCEPT ![p].observed = pending_jobs']
            /\ UNCHANGED <<result, returned_id, timer>>
       ELSE Return(p, TRUE)
  /\ UNCHANGED <<cvars, svars, wvars, auto_batch_enabled, client, slots, size, broker, next_job, next_id,
                 oldest_age, snap_count, acq_failed, write_failed>>

\* a flush whose lock is still held while pool.get() is awaited: the flush and
\* the acquisition are one critical section
BatchFlushHoldsLock(p) ==
  /\ pc[p] = "ab_flush"
  /\ CanGet
  /\ frame' = [frame EXCEPT ![p].payloads = flush_result(pending_jobs),
                            ![p].acquired = @ + 1,
                            ![p].job_ids = FreshIds(Len(pending_jobs)),
                            ![p].sent = 0]
  /\ pending_jobs' = flush_rest(pending_jobs)
  /\ snap_count' = Counted(flush_result(pending_jobs))
  /\ oldest_age' = 0
  /\ client' = [client EXCEPT ![p] = GetConn]
  /\ slots' = SlotsAfterGet
  /\ size' = SizeAfterGet
  /\ next_id' = next_id + Len(pending_jobs)
  /\ pc' = [pc EXCEPT ![p] = IF pending_jobs = <<>> THEN "eb_ret" ELSE "eb_send"]
  /\ UNCHANGED <<cvars, svars, wvars, auto_batch_enabled, result, broker, timer,
                 next_job, returned_id, added, acq_failed, write_failed>>

\* second critical section: queue.flush(), then the call of enqueue_batch_jobs
BatchFlush(p) ==
  /\ pc[p] = "ab_flush"
  /\ frame' = [frame EXCEPT ![p].payloads = flush_result(pending_jobs)]
  /\ pending_jobs' = flush_rest(pending_jobs)
  /\ snap_count' = Counted(flush_result(pending_jobs))
  /\ oldest_age' = 0
  /\ pc' = [pc EXCEPT ![p] = "eb_call"]
  /\ UNCHANGED <<cvars, svars, wvars, auto_batch_enabled, client, result, slots, size, broker, timer,
                 next_job, next_id, returned_id, added, acq_failed, write_failed>>

\* ------------------------------------------------------- enqueue_batch_jobs
\* enqueue_batch_jobs without its is_empty test: the connection is taken, the
\* loops run zero times, the connection is dropped
BatchJobsEmptyTakesConn(t) ==
  /\ pc[t] = "eb_call"
  /\ frame[t].payloads = <<>>
  /\ CanGet
  /\ slots' = Append(SlotsAfterGet, GetConn)
  /\ size' = SizeAfterGet
  /\ Return(t, TRUE)
  /\ UNCHANGED <<cvars, svars, wvars, auto_batch_enabled, pending_jobs, client, broker, next_job, next_id,
                 oldest_age, snap_count, added, acq_failed, write_failed>>

\* payloads.is_empty(): Ok(vec![]) without touching the pool
BatchJobsEmpty(t) ==
  /\ pc[t] = "eb_call"
  /\ frame[t].payloads = <<>>
  /\ Return(t, TRUE)
  /\ UNCHANGED <<cvars, svars, wvars, auto_batch_enabled, pending_jobs, client, slots, size, broker,
                 next_job, next_id, oldest_age, snap_count, added, acq_failed,
                 write_failed>>

\* pool.get() succeeds; then every Job is built (Job::new) and its id pushed
BatchJobsGet(t) ==
  /\ pc[t] = "eb_call"
  /\ frame[t].payloads # <<>>
  /\ CanGet
  /\ client' = [client EXCEPT ![t] = GetConn]
  /\ slots' = SlotsAfterGet
  /\ size' = SizeAfterGet
  /\ frame' = [frame EXCEPT ![t].acquired = @ + 1,
                            ![t].job_ids = FreshIds(Len(frame[t].payloads)),
                            ![t].sent = 0]
  /\ next_id' = next_id + Len(frame[t].payloads)
  /\ pc' = [pc EXCEPT ![t] = "eb_send"]
  /\ UNCHANGED <<cvars, svars, wvars, auto_batch_enabled, pending_jobs, result, broker, timer, next_job,
                 oldest_age, snap_count, returned_id, added, acq_failed, write_failed>>

\* an enqueue_batch_jobs that puts its jobs back when pool.get() fails
BatchJobsGetFailRequeues(t) ==
  /\ pc[t] = "eb_call"
  /\ frame[t].payloads # <<>>
  /\ MustCreate
  /\ acq_failed' = TRUE
  /\ pending_jobs' = frame[t].payloads \o pending_jobs
  /\ snap_count' = [j \in Jobs |-> IF j \in Range(frame[t].payloads) THEN 0
                                  ELSE snap_count[j]]
  /\ Return(t, FALSE)
  /\ UNCHANGED <<cvars, svars, wvars, auto_batch_enabled, client, slots, size, broker,
                 next_job, next_id, oldest_age, added, write_failed>>

\* pool.get() fails: FaktoryManager::create could not connect
BatchJobsGetFail(t) ==
  /\ pc[t] = "eb_call"
  /\ frame[t].payloads # <<>>
  /\ MustCreate
  /\ acq_failed' = TRUE
  /\ Return(t, FALSE)
  /\ UNCHANGED <<cvars, svars, wvars, auto_batch_enabled, pending_jobs, client, slots, size, broker,
                 next_job, next_id, oldest_age, snap_count, added, write_failed>>

\* a send loop that walks the jobs from the last to the first
NextToSendReversed(t) == Len(frame[t].payloads) - frame[t].sent

\* `for job in jobs`: the index of the job the send loop writes next
NextToSend(t) == frame[t].sent + 1

\* one round of the send loop: client.enqueue(job) succeeds
BatchJobsSend(t) ==
  /\ pc[t] = "eb_send"
  /\ broker' = Append(broker, [job |-> frame[t].payloads[NextToSend(t)],
                               id |-> frame[t].job_ids[NextToSend(t)],
                               conn |-> client[t]])
  /\ frame' = [frame EXCEPT ![t].sent = @ + 1]
  /\ pc' = [pc EXCEPT ![t] = IF frame[t].sent + 1 = Len(frame[t].payloads)
                             THEN "eb_ret" ELSE "eb_send"]
  /\ UNCHANGED <<cvars, svars, wvars, auto_batch_enabled, pending_jobs, client, result, slots, size, timer,
                 next_job, next_id, oldest_age, snap_count, returned_id, added,
                 acq_failed, write_failed>>

\* a send loop whose connection stays checked out when a write fails
BatchJobsSendFailLeaks(t) ==
  /\ pc[t] = "eb_send"
  /\ write_failed' = TRUE
  /\ Return(t, FALSE)
  /\ UNCHANGED <<cvars, svars, wvars, auto_batch_enabled, pending_jobs, client, slots, size,
                 broker, next_job, next_id, oldest_age, snap_count, added, acq_failed>>

\* one round of the send loop: client.enqueue(job) fails, the error is returned
\* and client is dropped
BatchJobsSendFail(t) ==
  /\ pc[t] = "eb_send"
  /\ write_failed' = TRUE
  /\ slots' = SlotsAfterRelease(client[t])
  /\ client' = [client EXCEPT ![t] = 0]
  /\ Return(t, FALSE)
  /\ UNCHANGED <<cvars, svars, wvars, auto_batch_enabled, pending_jobs, size, broker, next_job, next_id,
                 oldest_age, snap_count, added, acq_failed>>

\* Ok(job_ids): client is dropped at the end of the function
BatchJobsReturn(t) ==
  /\ pc[t] = "eb_ret"
  /\ slots' = SlotsAfterRelease(client[t])
  /\ client' = [client EXCEPT ![t] = 0]
  /\ Return(t, TRUE)
  /\ UNCHANGED <<cvars, svars, wvars, auto_batch_enabled, pending_jobs, size, broker, next_job, next_id,
                 oldest_age, snap_count, added, acq_failed, write_failed>>

\* ------------------------------------------------------------ batch_flusher
\* a flusher that flushes on every wake-up, without looking at queue.len()
FlusherWakeAlways ==
  /\ pc[Flusher] = "sleep"
  /\ timer = 0
  /\ frame' = [frame EXCEPT ![Flusher] =
                 [EmptyFrame EXCEPT !.call = "flush",
                                    !.payloads = flush_result(pending_jobs)]]
  /\ pending_jobs' = flush_rest(pending_jobs)
  /\ snap_count' = Counted(flush_result(pending_jobs))
  /\ oldest_age' = 0
  /\ pc' = [pc EXCEPT ![Flusher] = "eb_call"]
  /\ result' = [result EXCEPT ![Flusher] = "none"]
  /\ UNCHANGED <<cvars, svars, wvars, auto_batch_enabled, client, slots, size, broker, timer,
                 next_job, next_id, returned_id, added, acq_failed, write_failed>>

\* sleep(interval) has elapsed; under the lock: if queue.len() > 0 the queue is
\* flushed and handed to enqueue_batch_jobs, else the loop sleeps again
FlusherWake ==
  /\ pc[Flusher] = "sleep"
  /\ timer = 0
  /\ IF has_jobs(pending_jobs)
       THEN /\ frame' = [frame EXCEPT ![Flusher] =
                           [EmptyFrame EXCEPT !.call = "flush",
                                              !.payloads = flush_result(pending_jobs)]]
            /\ pending_jobs' = flush_rest(pending_jobs)
            /\ snap_count' = Counted(flush_result(pending_jobs))
            /\ oldest_age' = 0
            /\ pc' = [pc EXCEPT ![Flusher] = "eb_call"]
            /\ result' = [result EXCEPT ![Flusher] = "none"]
            /\ UNCHANGED timer
       ELSE /\ timer' = max_batch_delay_ms
            /\ UNCHANGED <<frame, pending_jobs, snap_count, oldest_age, pc, result>>
  /\ UNCHANGED <<cvars, svars, wvars, auto_batch_enabled, client, slots, size, broker, next_job, next_id,
                 returned_id, added, acq_failed, write_failed>>

\* ------------------------------------------------------------ time
\* one time unit passes
Tick ==
  /\ ~(pc[Flusher] = "sleep" /\ timer = 0)
  /\ timer' = IF pc[Flusher] = "sleep" THEN timer - 1 ELSE timer
  /\ oldest_age' = IF pending_jobs # <<>> THEN Min(oldest_age + 1, AgeCap) ELSE oldest_age
  /\ UNCHANGED <<cvars, svars, wvars, auto_batch_enabled, pending_jobs, pc, frame, client, result, slots,
                 size, broker, next_job, next_id, snap_count, returned_id, added,
                 acq_failed, write_failed>>

\* ------------------------------------------------------------ specification
Next ==
  \/ \E p \in Producers : SingleHandler(p)
  \/ \E p \in Producers : \E n \in 0..MaxBatchLen : BatchHandler(p, n)
  \/ \E p \in Producers : EnqueueJobGet(p)
  \/ \E p \in Producers : EnqueueJobGetFail(p)
  \/ \E p \in Producers : EnqueueJobSend(p)
  \/ \E p \in Producers : EnqueueJobSendFail(p)
  \/ \E p \in Producers : EnqueueJobReturn(p)
  \/ \E p \in Producers : BatchAdd(p)
  \/ \E p \in Producers : BatchFlush(p)
  \/ \E t \in Callers : BatchJobsEmpty(t)
  \/ \E t \in Callers : BatchJobsGet(t)
  \/ \E t \in Callers : BatchJobsGetFail(t)
  \/ \E t \in Callers : BatchJobsSend(t)
  \/ \E t \in Callers : BatchJobsSendFail(t)
  \/ \E t \in Callers : BatchJobsReturn(t)
  \/ FlusherWake
  \/ Tick

Spec == Init /\ [][Next]_vars

\* The tokio runtime schedules every runnable task and wakes an elapsed sleep, a
\* started broker write completes (with success or with an error), and the
\* pool's waiters are served first come, first served, so a task waiting in
\* pool.get() is not passed over for ever: strong fairness for every task (it
\* differs from weak fairness only for a task waiting in pool.get(), the one
\* step another task can disable), and time goes on.
\* the steps by which task t goes on when nothing fails
Progress(t) ==
  \/ t \in Producers /\ (BatchAdd(t) \/ BatchFlush(t))
  \/ t \in Producers /\ (EnqueueJobGet(t) \/ EnqueueJobSend(t) \/ EnqueueJobReturn(t))
  \/ t = Flusher /\ FlusherWake
  \/ BatchJobsEmpty(t) \/ BatchJobsGet(t) \/ BatchJobsSend(t) \/ BatchJobsReturn(t)

Fairness == WF_vars(Tick) /\ \A t \in Callers : SF_vars(Progress(t))

\* the auto-batching pipeline alone (BATCH_AUTO_ENABLED=true, single-job requests)
AutoBatchInit == Init /\ auto_batch_enabled

AutoBatchNext ==
  \/ \E p \in Producers : SingleHandler(p)
  \/ \E p \in Producers : BatchAdd(p)
  \/ \E p \in Producers : BatchFlush(p)
  \/ \E t \in Callers : BatchJobsEmpty(t)
  \/ \E t \in Callers : BatchJobsGet(t)
  \/ \E t \in Callers : BatchJobsGetFail(t)
  \/ \E t \in Callers : BatchJobsSend(t)
  \/ \E t \in Callers : BatchJobsSendFail(t)
  \/ \E t \in Callers : BatchJobsReturn(t)
  \/ FlusherWake
  \/ Tick

AutoBatchLiveSpec == AutoBatchInit /\ [][AutoBatchNext]_vars /\ Fairness

\* the direct path alone (BATCH_AUTO_ENABLED=false, single-job requests); the
\* flusher still runs and finds the accumulator empty
DirectInit == Init /\ ~auto_batch_enabled

DirectNext ==
  \/ \E p \in Producers : SingleHandler(p)
  \/ \E p \in Producers : EnqueueJobGet(p)
  \/ \E p \in Producers : EnqueueJobGetFail(p)
  \/ \E p \in Producers : EnqueueJobSend(p)
  \/ \E p \in Producers : EnqueueJobSendFail(p)
  \/ \E p \in Producers : EnqueueJobReturn(p)
  \/ FlusherWake
  \/ Tick

DirectLiveSpec == DirectInit /\ [][DirectNext]_vars /\ Fairness

\* ------------------------------------------------------------ properties
Transmitted(j) == \E i \in 1..Len(broker) : broker[i].job = j

\* what the broker received of job j
Transmissions(j) == SelectSeq(broker, LAMBDA e : e.job = j)

\* C1: every job added to the accumulator is, at every moment, either pending
\* exactly once and in no flush() result, or in exactly one flush() result and
\* not pending; a job never added is in neither.
C1_ExactlyOneSnapshot ==
  \A j \in Jobs :
    IF j \in added
      THEN \/ Occurrences(pending_jobs, j) = 1 /\ snap_count[j] = 0
           \/ Occurrences(pending_jobs, j) = 0 /\ snap_count[j] = 1
      ELSE Occurrences(pending_jobs, j) = 0 /\ snap_count[j] = 0

\* C1 witness: the flusher is submitting a snapshot that holds a job while a
\* job added after that flush is pending and a producer whose add reached the
\* threshold is about to flush.
C1_Witness ==
  /\ pc[Flusher] = "eb_send"
  /\ \E j \in added : snap_count[j] = 1 /\ j \in Range(frame[Flusher].payloads)
  /\ \E k \in added : Occurrences(pending_jobs, k) = 1
  /\ \E p \in Producers : pc[p] = "ab_flush"

\* C2 (as claimed): between the add that reached the threshold and the flush
\* it triggers nothing else touches the accumulator, and the flush returns the
\* batch whose threshold the producer observed.
C2_SingleCriticalSection ==
  \A p \in Producers :
    /\ pc[p] = "ab_flush" => pending_jobs = frame[p].observed
    /\ (frame[p].call = "auto" /\ pc[p] = "eb_call") =>
         frame[p].payloads = frame[p].observed

\* C3 (as claimed): a job is transmitted under the identifier that was returned
\* to its caller.
C3_StableJobId ==
  \A i \in 1..Len(broker) :
    returned_id[broker[i].job] # 0 => broker[i].id = returned_id[broker[i].job]

\* C4 (as claimed): no job is pending longer than max_batch_delay_ms.
C4_BoundedPendingDelay ==
  pending_jobs # <<>> => oldest_age <= max_batch_delay_ms

SentOf(t) == SelectSeq(broker, LAMBDA e : e.job \in Range(frame[t].payloads))

\* the first n jobs of t's batch, each with its identifier, over connection c
InOrder(t, n, c) ==
  [i \in 1..n |-> [job |-> frame[t].payloads[i], id |-> frame[t].job_ids[i], conn |-> c]]

\* C6: a call of enqueue_batch_jobs with a non-empty input takes exactly one
\* connection and, while it holds it, writes the jobs over it in input order;
\* it holds none once it has returned, and an identifier it returned is the one
\* under which that input job was written, once.
C6_BatchOneConnectionInOrder ==
  /\ \A t \in Callers :
       /\ pc[t] \in {"eb_send", "eb_ret"} =>
            /\ frame[t].acquired = 1
            /\ client[t] # 0
            /\ Len(frame[t].job_ids) = Len(frame[t].payloads)
            /\ SentOf(t) = InOrder(t, frame[t].sent, client[t])
            /\ pc[t] = "eb_ret" <=> frame[t].sent = Len(frame[t].payloads)
       /\ pc[t] \in {"idle", "sleep"} => client[t] = 0
  /\ \A j \in Jobs \ added :
       returned_id[j] # 0 =>
         /\ Len(Transmissions(j)) = 1
         /\ Transmissions(j)[1].id = returned_id[j]

\* C6 witness: a POST /jobs/batch of two jobs has written both and is about to
\* return.
C6_Witness ==
  \E p \in Producers :
    /\ frame[p].call = "batch" /\ pc[p] = "eb_ret"
    /\ Len(frame[p].payloads) = 2

\* C7: a call of enqueue_batch_jobs with an empty input ends with Ok and the
\* empty job_ids, leaves the pool as it was (no connection taken) and sends
\* nothing.
C7_EmptyBatchNoAcquisition ==
  [][\A t \in Callers :
       (pc[t] = "eb_call" /\ frame[t].payloads = <<>> /\ pc'[t] # "eb_call") =>
         /\ result'[t] = "ok"
         /\ frame[t].job_ids = <<>>
         /\ frame[t].acquired = 0
         /\ UNCHANGED <<slots, size, client, broker>>]_vars

\* C7 witness: a producer whose add reached the threshold found the queue
\* already flushed and calls enqueue_batch_jobs with the empty snapshot while
\* no connection is idle.
C7_Witness ==
  \E p \in Producers :
    /\ frame[p].call = "auto" /\ frame[p].observed # <<>>
    /\ frame[p].payloads = <<>>
    /\ pc[p] = "eb_call"
    /\ slots = <<>>

\* what the broker received of p's single job
OneSent(p) == Transmissions(frame[p].payload)

C8_State ==
  /\ \A p \in Producers :
       /\ frame[p].call = "one" =>
            /\ pc[p] = "one_get" =>
                 client[p] = 0 /\ frame[p].acquired = 0 /\ OneSent(p) = <<>>
            /\ pc[p] = "one_send" =>
                 client[p] # 0 /\ frame[p].acquired = 1 /\ OneSent(p) = <<>>
            /\ pc[p] = "one_ret" =>
                 /\ client[p] # 0 /\ frame[p].acquired = 1
                 /\ OneSent(p) = << [job |-> frame[p].payload, id |-> frame[p].job_id,
                                     conn |-> client[p]] >>
       /\ pc[p] = "idle" => client[p] = 0
  /\ \A j \in Jobs : returned_id[j] # 0 => Len(Transmissions(j)) = 1

C8_Frame ==
  \A p \in Producers :
    (frame[p].call = "one" /\ pc'[p] # pc[p]) =>
      UNCHANGED <<pending_jobs, added, snap_count>>

\* C8: enqueue_job takes exactly one connection, writes exactly one job over
\* it, holds no connection once it has returned, and none of its steps changes
\* the accumulator.
C8_SubmitOne == []C8_State /\ [][C8_Frame]_vars

\* C8 witness: an enqueue_job has returned Ok while the other producer is in
\* the middle of its own.
C8_Witness ==
  \E p, q \in Producers :
    /\ pc[p] = "idle" /\ result[p] = "ok"
    /\ frame[q].call = "one" /\ pc[q] = "one_send"

\* the connections checked out
Borrowed == {client[t] : t \in {u \in Tasks : client[u] # 0}}

\* C9: the live handles are at most max_size, each is either idle or checked
\* out, and a checked-out handle has one borrower.
C9_PoolInvariant ==
  /\ size <= max_size
  /\ Range(slots) \cup Borrowed = 1..size
  /\ Range(slots) \cap Borrowed = {}
  /\ Cardinality(Range(slots)) = Len(slots)
  /\ \A t, u \in Tasks : (t # u /\ client[t] # 0) => client[t] # client[u]

\* C9 witness: every handle is checked out, one of them by a task that is
\* writing to the broker, while another task waits in pool.get().
C9_Witness ==
  /\ size = max_size
  /\ slots = <<>>
  /\ \E t \in Callers : client[t] # 0 /\ pc[t] \in {"one_send", "eb_send"}
  /\ \E u \in Callers :
       pc[u] = "one_get" \/ (pc[u] = "eb_call" /\ frame[u].payloads # <<>>)

C10_Acquire ==
  \A t \in Callers :
    (client[t] = 0 /\ client'[t] # 0) =>
      IF Len(slots) > 0
        THEN client'[t] = Head(slots) /\ slots' = Tail(slots) /\ size' = size
        ELSE size < max_size /\ client'[t] = size + 1 /\ size' = size + 1 /\ slots' = slots

C10_Suspend ==
  \A p \in Producers :
    (pc[p] = "one_get" /\ Len(slots) = 0 /\ size >= max_size) =>
      (pc'[p] = "one_get" /\ client'[p] = 0)

\* C10: pool.get() hands out an idle handle if there is one, else a new one if
\* fewer than max_size are live, else the caller stays suspended; a caller of
\* enqueue_job writes only while it holds a handle, and a suspended caller goes
\* on once a handle has been released.
C10_AcquireOrSuspend ==
  /\ [][C10_Acquire /\ C10_Suspend]_vars
  /\ [](\A p \in Producers : pc[p] \in {"one_send", "one_ret"} => client[p] # 0)
  /\ \A p \in Producers : (pc[p] = "one_get") ~> (pc[p] # "one_get")

\* C10 witness: two concurrent enqueue_job calls, one holds the only handle
\* that is left and has written its job, the other is suspended in pool.get().
C10_Witness ==
  \E p, q \in Producers :
    /\ pc[p] = "one_ret"
    /\ pc[q] = "one_get" /\ Len(slots) = 0 /\ size >= max_size

\* job j is in the snapshot some task is submitting
Held(j) == \E t \in Callers : j \in Range(frame[t].payloads)

\* job j was taken by a flush() whose submission is over
Gone(j) == snap_count[j] = 1 /\ ~Held(j)

\* the submission of the flusher's snapshot fails in this step
FlusherFails ==
  pc[Flusher] \in {"eb_call", "eb_send"} /\ result'[Flusher] = "err"

C11_OnlyLogged ==
  FlusherFails =>
    /\ pc'[Flusher] = "sleep" /\ timer' = max_batch_delay_ms
    /\ pending_jobs' = pending_jobs
    /\ \A j \in Range(frame[Flusher].payloads) : Gone(j)'
    /\ \A p \in Producers : result'[p] = result[p] /\ pc'[p] = pc[p]
    /\ returned_id' = returned_id

C11_NeverAgain ==
  \A j \in Jobs :
    Gone(j) => Gone(j)' /\ Occurrences(pending_jobs', j) = 0
               /\ Transmissions(j)' = Transmissions(j)

\* C11: a failed submission inside batch_flusher changes nothing for the
\* producers (no result, no returned identifier), the flusher sleeps its next
\* interval, the jobs of the failed snapshot are not put back, and a job whose
\* snapshot's submission is over is never pending, submitted or written again.
C11_FlusherFailureOnlyLogged == [][C11_OnlyLogged]_vars /\ [][C11_NeverAgain]_vars

\* C11 witness: every producer call was answered Ok with an identifier, a
\* flusher submission failed and lost a job, and the flusher is writing its
\* next snapshot.
C11_Witness ==
  /\ pc[Flusher] = "eb_send"
  /\ acq_failed \/ write_failed
  /\ \A j \in Jobs : returned_id[j] # 0
  /\ \E j \in Jobs : Gone(j) /\ ~Transmitted(j)

\* task t is in pool.get() of enqueue_job or enqueue_batch_jobs
InGet(t) ==
  pc[t] = "one_get" \/ (pc[t] = "eb_call" /\ frame[t].payloads # <<>>)

\* in this step pool.get() of task t ends without a connection
AcquisitionFails(t) == InGet(t) /\ pc'[t] # pc[t] /\ client'[t] = 0

\* in this step client.enqueue of task t ends without the job written
WriteFails(t) ==
  pc[t] \in {"one_send", "eb_send"} /\ frame'[t] # frame[t] /\ broker' = broker

\* in this step the call of task t ends with Ok
ReturnsOk(t) ==
  pc[t] \notin {"idle", "sleep"} /\ pc'[t] \in {"idle", "sleep"} /\ result'[t] = "ok"

C12_Failure ==
  \A t \in Callers :
    (AcquisitionFails(t) \/ WriteFails(t)) =>
      /\ pc'[t] \in {"idle", "sleep"}
      /\ result'[t] = "err"
      /\ returned_id' = returned_id

C12_Success ==
  \A t \in Callers :
    ReturnsOk(t) =>
      CASE frame[t].call = "one" ->
             pc[t] = "one_ret" /\ Len(OneSent(t)) = 1
        [] frame[t].call \in {"batch", "flush"} ->
             pc[t] = "eb_ret" /\ Len(SentOf(t)) = Len(frame[t].payloads)
        [] OTHER ->
             \/ pc[t] = "ab_add"
             \/ pc[t] = "eb_call" /\ frame[t].payloads = <<>>
             \/ pc[t] = "eb_ret" /\ Len(SentOf(t)) = Len(frame[t].payloads)

\* C12: a call of enqueue_job or enqueue_batch_jobs in which pool.get() or
\* client.enqueue fails ends at once with Err for its caller and hands back no
\* identifier; a call that ends with Ok has written every one of its jobs.
C12_FailureSurfaces == [][C12_Failure]_vars /\ [][C12_Success]_vars

\* C12 witness: a POST /jobs/batch of two jobs was answered with an error and
\* without identifiers after its second write failed.
C12_Witness ==
  /\ \A t \in Callers : pc[t] \in {"idle", "sleep"}
  /\ \E p \in Producers : result[p] = "err"
  /\ write_failed /\ ~acq_failed
  /\ Len(broker) = 1
  /\ \A j \in Jobs : returned_id[j] = 0

C13_AddThenShouldFlush ==
  \A p \in Producers :
    (pc[p] = "ab_add" /\ pc'[p] # "ab_add") =>
      /\ pending_jobs' = Append(pending_jobs, frame[p].payload)
      /\ pc'[p] = "ab_flush" <=> Len(pending_jobs') >= max_batch_size
      /\ pc'[p] # "ab_flush" => pc'[p] = "idle" /\ result'[p] = "ok"

\* C13: the should_flush() that follows an add answers true exactly when the
\* pending count, the added job included, is at least max_batch_size, and the
\* accumulator after the two calls is the one add left.
C13_ShouldFlushIffFull == [][C13_AddThenShouldFlush]_vars

\* C13 witness: should_flush() answered true for a pending count above
\* max_batch_size while an earlier add of this run was answered false.
C13_Witness ==
  \E p \in Producers :
    /\ pc[p] = "ab_flush"
    /\ Len(frame[p].observed) > max_batch_size
    /\ \E j \in Range(frame[p].observed) : returned_id[j] # 0

\* task t calls queue.flush() in this step
Flushes(t) ==
  \/ pc[t] = "ab_flush" /\ pc'[t] = "eb_call"
  \/ t = Flusher /\ pc[t] = "sleep" /\ pc'[t] = "eb_call"

C14_Flush ==
  \A t \in Callers :
    Flushes(t) =>
      /\ frame'[t].payloads = pending_jobs
      /\ pending_jobs' = <<>> /\ len(pending_jobs') = 0
      /\ auto_batch_enabled' = auto_batch_enabled

C14_InsertionOrder ==
  \/ pending_jobs' = pending_jobs
  \/ pending_jobs' = <<>>
  \/ \E j \in Jobs : pending_jobs' = Append(pending_jobs, j)

\* C14: flush() hands its caller the whole pending sequence as it stood, which
\* only ever grew at its end (insertion order), and leaves the accumulator
\* empty and the configuration as it was.
C14_FlushReturnsAllInOrder == [][C14_Flush]_vars /\ [][C14_InsertionOrder]_vars

\* C14 witness: three jobs were added, should_flush answered false after the
\* first and true after a later one, and one flush() returned all three with
\* the accumulator left empty.
C14_Witness ==
  \E p \in Producers :
    /\ pc[p] = "eb_call" /\ frame[p].call = "auto"
    /\ Len(frame[p].payloads) = 3
    /\ \E j \in Range(frame[p].payloads) : returned_id[j] # 0
    /\ len(pending_jobs) = 0

\* C15 (as claimed): the accumulator never holds more than max_batch_size
\* jobs, and a batch that a flush writes to the broker has between 1 and
\* max_batch_size jobs.
C15_MaxBatchSize ==
  /\ Len(pending_jobs) <= max_batch_size
  /\ \A t \in Callers :
       (frame[t].call \in {"auto", "flush"} /\ pc[t] \in {"eb_send", "eb_ret"}) =>
         /\ Len(frame[t].payloads) >= 1
         /\ Len(frame[t].payloads) <= max_batch_size

\* ------------------------------------------------------------ worker service
\* the tags registered with WorkerBuilder::register_fn
Registered == {"math_add", "math_subtract", "math_multiply", "math_divide"}

\* a handle_divide without its test for a zero divisor
handle_unchecked(x) ==
  [ok |-> TRUE, value |-> <<x.variant, x.args.a, x.args.b>>]

\* handle_add / handle_subtract / handle_multiply / handle_divide: Ok of the
\* computed number (here the operation and its operands), and Err only for a
\* division by zero
handle(x) ==
  IF x.variant = "Divide" /\ x.args.b = "0.0"
    THEN [ok |-> FALSE, value |-> <<>>]
    ELSE [ok |-> TRUE, value |-> <<x.variant, x.args.a, x.args.b>>]

\* a job_handler that returns Ok(()) whatever the job
job_handler_always_ok(job) == "ok"

\* job_handler: Err ("fail") for a missing first argument, a payload that does
\* not parse, or a failed handler; Ok(()) otherwise, the value dropped
job_handler(job) ==
  IF Len(job.args) = 0 THEN "fail"
  ELSE IF from_job_type(job.tag, job.args[1]) = ParseError THEN "fail"
  ELSE IF handle(from_job_type(job.tag, job.args[1])).ok THEN "ok" ELSE "fail"

\* what the worker reports for a job: FAIL for a tag without a registered
\* handler, else ACK or FAIL as the handler returned Ok or Err
dispatch(job) ==
  IF job.tag \in Registered THEN job_handler(job) ELSE "fail"

\* the jobs being handled
InFlight == {j \in FetchIds : inflight[j] # NoShape}

\* a worker that fetches without regard to its busy handlers
CanFetchUnlimited == TRUE

\* .workers(worker_concurrency): at most that many jobs are handled at a time
CanFetch == Cardinality(InFlight) < worker_concurrency

\* WorkerBuilder::connect succeeds; main spawns the task that runs worker.run
\* and waits in shutdown.notified()
WorkerConnect ==
  /\ wphase = "connecting"
  /\ wphase' = "waiting"
  /\ wrun' = "running"
  /\ UNCHANGED <<cvars, svars, avars, sigtask, permit, inflight, outcome, fetched, drain_clock,
                 shutdown_report, sigjobs, sig_done_at>>

\* WorkerBuilder::connect fails: main returns the error
WorkerConnectFail ==
  /\ wphase = "connecting"
  /\ wphase' = "failed"
  /\ UNCHANGED <<cvars, svars, avars, sigtask, permit, wrun, inflight, outcome, fetched,
                 drain_clock, shutdown_report, sigjobs, sig_done_at>>

\* a signal task that calls shutdown.notify_waiters(): only a task already
\* waiting is woken, no permit is kept for a later notified()
SignalNotifyWaiters ==
  /\ sigtask = "listening"
  /\ wphase \notin {"stopped", "failed"}
  /\ sigtask' = "done"
  /\ permit' = (wphase = "waiting")
  /\ sigjobs' = InFlight
  /\ sig_done_at' = IF InFlight = {} THEN 0 ELSE -1
  /\ UNCHANGED <<cvars, svars, avars, wphase, wrun, inflight, outcome, fetched, drain_clock,
                 shutdown_report>>

\* the signal task receives SIGTERM or SIGINT and calls shutdown.notify_one(),
\* which keeps one permit when no task is waiting yet
Signal ==
  /\ sigtask = "listening"
  /\ wphase \notin {"stopped", "failed"}
  /\ sigtask' = "done"
  /\ permit' = TRUE
  /\ sigjobs' = InFlight
  /\ sig_done_at' = IF InFlight = {} THEN 0 ELSE -1
  /\ UNCHANGED <<cvars, svars, avars, wphase, wrun, inflight, outcome, fetched, drain_clock,
                 shutdown_report>>

\* one of the worker's handlers fetches a job and starts on it
Fetch(job) ==
  /\ wrun = "running"
  /\ CanFetch
  /\ fetched < MaxFetched
  /\ fetched' = fetched + 1
  /\ inflight' = [inflight EXCEPT ![fetched + 1] = job]
  /\ UNCHANGED <<cvars, svars, avars, wphase, sigtask, permit, wrun, outcome, drain_clock,
                 shutdown_report, sigjobs, sig_done_at>>

\* the handling of job j ends and its outcome is reported to the broker
Complete(j) ==
  /\ wrun = "running"
  /\ j \in InFlight
  /\ outcome' = [outcome EXCEPT ![j] = dispatch(inflight[j])]
  /\ inflight' = [inflight EXCEPT ![j] = NoShape]
  /\ sig_done_at' = IF j \in sigjobs /\ sigjobs \cap InFlight = {j}
                      THEN drain_clock ELSE sig_done_at
  /\ UNCHANGED <<cvars, svars, avars, wphase, sigtask, permit, wrun, fetched, drain_clock,
                 shutdown_report, sigjobs>>

\* worker.run returns by itself: Ok when the broker tells the worker to
\* terminate, Err on an I/O error
WorkerRunEnds(ok) ==
  /\ wrun = "running"
  /\ wrun' = IF ok THEN "ended_ok" ELSE "ended_err"
  /\ UNCHANGED <<cvars, svars, avars, wphase, sigtask, permit, inflight, outcome, fetched,
                 drain_clock, shutdown_report, sigjobs, sig_done_at>>

\* a main that waits for the notification or the end of worker.run,
\* whichever comes first
MainWakeOrWorkerEnded ==
  /\ wphase = "waiting"
  /\ permit \/ wrun \in {"ended_ok", "ended_err"}
  /\ permit' = FALSE
  /\ wphase' = "draining"
  /\ drain_clock' = 0
  /\ UNCHANGED <<cvars, svars, avars, sigtask, wrun, inflight, outcome, fetched, shutdown_report,
                 sigjobs, sig_done_at>>

\* shutdown.notified() returns: main logs the signal and enters the select
\* over worker_handle and sleep(30 s)
MainWake ==
  /\ wphase = "waiting"
  /\ permit
  /\ permit' = FALSE
  /\ wphase' = "draining"
  /\ drain_clock' = 0
  /\ UNCHANGED <<cvars, svars, avars, sigtask, wrun, inflight, outcome, fetched, shutdown_report,
                 sigjobs, sig_done_at>>

\* the select's first branch: worker_handle is finished; main logs how the
\* worker ended and returns
MainDrainDone ==
  /\ wphase = "draining"
  /\ wrun \in {"ended_ok", "ended_err"}
  /\ shutdown_report' = IF wrun = "ended_ok" THEN "clean" ELSE "error"
  /\ wphase' = "stopped"
  /\ UNCHANGED <<cvars, svars, avars, sigtask, permit, wrun, inflight, outcome, fetched,
                 drain_clock, sigjobs, sig_done_at>>

\* a timeout branch that is taken only once no job is in flight
MainDrainTimeoutWaits ==
  /\ wphase = "draining"
  /\ drain_clock = drain_deadline
  /\ InFlight = {}
  /\ shutdown_report' = "timeout"
  /\ wphase' = "stopped"
  /\ wrun' = IF wrun = "running" THEN "aborted" ELSE wrun
  /\ UNCHANGED <<cvars, svars, avars, sigtask, permit, inflight, outcome, fetched, drain_clock,
                 sigjobs, sig_done_at>>

\* the select's second branch: the sleep has elapsed; main logs the timeout
\* warning and returns, which drops the runtime and with it the worker task
MainDrainTimeout ==
  /\ wphase = "draining"
  /\ drain_clock = drain_deadline
  /\ shutdown_report' = "timeout"
  /\ wphase' = "stopped"
  /\ wrun' = IF wrun = "running" THEN "aborted" ELSE wrun
  /\ UNCHANGED <<cvars, svars, avars, sigtask, permit, inflight, outcome, fetched, drain_clock,
                 sigjobs, sig_done_at>>

\* one time unit passes while main is in the shutdown select; the runtime
\* wakes the select when its sleep has elapsed.  A finished worker_handle
\* makes the select's first branch ready at once, so no time passes with it
WorkerTick ==
  /\ wphase = "draining"
  /\ wrun = "running"
  /\ drain_clock < drain_deadline
  /\ drain_clock' = drain_clock + 1
  /\ UNCHANGED <<cvars, svars, avars, wphase, sigtask, permit, wrun, inflight, outcome, fetched,
                 shutdown_report, sigjobs, sig_done_at>>

\* the worker process alone; the API service stays as it started
WorkerInit == Init /\ auto_batch_enabled

WorkerNext ==
  \/ WorkerConnect
  \/ WorkerConnectFail
  \/ Signal
  \/ \E job \in JobShapes : Fetch(job)
  \/ \E j \in FetchIds : Complete(j)
  \/ \E ok \in BOOLEAN : WorkerRunEnds(ok)
  \/ MainWake
  \/ MainDrainDone
  \/ MainDrainTimeout
  \/ WorkerTick

\* The runtime runs main whenever it can go on, connect() ends one way or the
\* other, and time goes on.  Nothing obliges a signal to arrive, the broker to
\* hand out a job, a handler to finish or worker.run to return.
WorkerFairness ==
  /\ WF_vars(WorkerConnect \/ WorkerConnectFail)
  /\ WF_vars(MainWake)
  /\ WF_vars(MainDrainDone \/ MainDrainTimeout)
  /\ WF_vars(WorkerTick)

WorkerLiveSpec == WorkerInit /\ [][WorkerNext]_vars /\ WorkerFairness

\* ------------------------------------------------------------ worker properties
\* C16: the jobs fetched and not yet reported are never more than
\* worker_concurrency.
C16_InFlightBounded == Cardinality(InFlight) <= worker_concurrency

\* C16 witness: the worker is Running with worker_concurrency jobs in flight
\* while the broker has a further job for it.
C16_Witness ==
  /\ wphase = "waiting" /\ wrun = "running"
  /\ Cardinality(InFlight) = worker_concurrency
  /\ fetched < MaxFetched

\* a job whose tag is not registered or whose first argument is missing or
\* does not decode
BadJob(job) ==
  \/ job.tag \notin Registered
  \/ Len(job.args) = 0
  \/ ~is_math_args(job.args[1])

\* job j is reported in this step
Reported(j) == outcome[j] = "none" /\ outcome'[j] # "none"

C17_BadJobStep ==
  \A j \in FetchIds :
    (Reported(j) /\ BadJob(inflight[j])) =>
      /\ outcome'[j] = "fail"
      /\ wrun' = wrun /\ wphase' = wphase
      /\ fetched' = fetched /\ \A k \in FetchIds \ {j} : inflight'[k] = inflight[k]

\* C17: a fetched job with an unknown tag or with a missing or malformed first
\* argument is reported as failed, and reporting it changes neither the state
\* of the loop nor that of the process nor any other job; the loop is still
\* running when a job has been reported as failed.
C17_BadJobFailsLoopContinues ==
  /\ [][C17_BadJobStep]_vars
  /\ [][(\E j \in FetchIds : Reported(j)) => wrun' = "running"]_vars

\* C17 witness: after a job was reported as failed the Running worker is
\* handling a later job, one with an unknown tag.
C17_Witness ==
  /\ wphase = "waiting" /\ wrun = "running"
  /\ \E j, k \in FetchIds :
       /\ j < k /\ outcome[j] = "fail"
       /\ k \in InFlight /\ inflight[k].tag \notin Registered

\* C18 (as claimed): once main is in the drain phase no new job is fetched.
C18_NoFetchWhileDraining == [][wphase = "draining" => fetched' = fetched]_vars

\* C19 (as claimed): a signal that arrives with one job in flight, which is
\* reported 1 time unit into the drain with worker.run not failing, ends in a
\* clean shutdown report.
C19_CleanShutdown ==
  (/\ wphase = "stopped"
   /\ Cardinality(sigjobs) = 1 /\ sig_done_at = 1
   /\ wrun # "ended_err") => shutdown_report = "clean"

\* C20: the shutdown select never lasts longer than drain_deadline; a process
\* that has received the signal terminates (or had failed to connect); when it
\* reports the timeout the deadline has elapsed and worker.run runs no more;
\* and nothing of the worker moves once main has returned.
C20_TerminatesWithinDeadline ==
  /\ [](drain_clock <= drain_deadline)
  /\ []((wphase = "stopped" /\ shutdown_report = "timeout") =>
          (drain_clock = drain_deadline /\ wrun # "running"))
  /\ [][wphase = "stopped" => UNCHANGED wvars]_vars
  /\ (permit ~> (wphase \in {"stopped", "failed"}))

\* C20 witness: main has logged the timeout and returned while a job was
\* still in flight.
C20_Witness ==
  /\ wphase = "stopped" /\ shutdown_report = "timeout"
  /\ InFlight # {}

\* main's phases in the order of the lifecycle: Connecting, Running (main
\* waits for the signal), Draining, Stopped; a failed connect ends the process
PhaseRank(ph) ==
  CASE ph = "connecting" -> 0
    [] ph = "waiting"    -> 1
    [] ph = "draining"   -> 2
    [] OTHER             -> 3

\* a job is fetched, or handled to its end and reported, in this step
WorkerActs ==
  \/ fetched' # fetched
  \/ inflight' # inflight
  \/ \E j \in FetchIds : Reported(j)

C21_Forward ==
  wphase' # wphase =>
    \/ wphase = "connecting" /\ wphase' \in {"waiting", "failed"}
    \/ wphase = "waiting" /\ wphase' = "draining"
    \/ wphase = "draining" /\ wphase' = "stopped"

C21_OnlyWhileConnected ==
  WorkerActs => (wphase \in {"waiting", "draining"} /\ wphase' # "stopped")

C21_Terminal ==
  wphase \in {"stopped", "failed"} => (wphase' = wphase /\ ~WorkerActs)

\* C21: main's phase only moves along Connecting, Running, Draining, Stopped
\* (or from Connecting to a failed start); a job is fetched or reported only
\* after connect() has returned and before main has reported the end of the
\* shutdown; and once it has, the phase stays and no job is fetched or reported.
C21_LifecycleForward ==
  /\ [][C21_Forward]_vars
  /\ [][C21_OnlyWhileConnected]_vars
  /\ [][C21_Terminal]_vars
  /\ [](PhaseRank(wphase) = 0 => (fetched = 0 /\ InFlight = {}))

\* C21 witness: the process has stopped with a clean report after it fetched
\* and reported one job, while the broker had another one for it.
C21_Witness ==
  /\ wphase = "stopped" /\ shutdown_report = "clean"
  /\ fetched = 1 /\ outcome[1] # "none"

\* the jobs for which job_handler is claimed to fail: no first argument, a tag
\* that is not one of the four, arguments that do not decode, a division by zero
MustFail(job) ==
  \/ Len(job.args) = 0
  \/ job.tag \notin Registered
  \/ ~is_math_args(job.args[1])
  \/ job.tag = "math_divide" /\ job.args[1].b = "0.0"

C25_Report ==
  \A j \in FetchIds :
    Reported(j) =>
      /\ outcome'[j] = IF MustFail(inflight[j]) THEN "fail" ELSE "ok"
      /\ j \in InFlight /\ inflight'[j] = NoShape

C25_Once ==
  \A j \in FetchIds : outcome[j] # "none" => outcome'[j] = outcome[j]

C25_Handler ==
  \A j \in InFlight :
    /\ job_handler(inflight[j]) \in {"ok", "fail"}
    /\ job_handler(inflight[j]) = "fail" <=> MustFail(inflight[j])

\* C25: job_handler returns Err for a job in flight exactly when the job has no
\* first argument, an unknown tag, arguments that do not decode, or is a
\* division by zero, and Ok(()) without a value otherwise; the report of a job
\* handled to its end is that failure or success, it ends the handling of the
\* job, and it is never changed afterwards.
C25_OneOutcomePerJob ==
  /\ []C25_Handler
  /\ [][C25_Report]_vars
  /\ [][C25_Once]_vars
  /\ [](\A j \in FetchIds : outcome[j] \in {"none", "ok", "fail"})

\* C25 witness: the first job was reported as a success and the second, a
\* division by zero, is being handled.
C25_Witness ==
  /\ outcome[1] = "ok"
  /\ inflight[2] = [tag |-> "math_divide",
                    args |-> << [a |-> "1.5", b |-> "0.0", request_id |-> "null"] >>]

\* the flusher's sleep has elapsed and it takes its turn under the lock
Wakes ==
  /\ pc[Flusher] = "sleep" /\ timer = 0
  /\ pc'[Flusher] # "sleep" \/ timer' # timer

C27_Wake ==
  Wakes =>
    IF pending_jobs = <<>>
      THEN /\ pc'[Flusher] = "sleep" /\ timer' = max_batch_delay_ms
           /\ UNCHANGED <<pending_jobs, snap_count, frame, client, slots, size, broker>>
      ELSE /\ pc'[Flusher] = "eb_call"
           /\ frame'[Flusher].call = "flush"
           /\ frame'[Flusher].payloads = pending_jobs
           /\ pending_jobs' = <<>>
           /\ UNCHANGED <<client, slots, size, broker>>

C27_SubmitPath ==
  /\ pc[Flusher] \in {"sleep", "eb_call", "eb_send", "eb_ret"}
  /\ pc[Flusher] # "sleep" => (frame[Flusher].call = "flush" /\ frame[Flusher].payloads # <<>>)
  /\ client[Flusher] # 0 <=> pc[Flusher] \in {"eb_send", "eb_ret"}

\* C27: a wake-up of the flusher that finds the accumulator empty takes no
\* connection, sends nothing, leaves the accumulator as it was and sleeps the
\* next interval; one that finds it non-empty takes the whole pending sequence
\* as one snapshot, leaves the accumulator empty and hands the snapshot to
\* enqueue_batch_jobs, the only place where the flusher holds a connection.
C27_FlusherFlushesIffNonEmpty == [][C27_Wake]_vars /\ []C27_SubmitPath

\* C27 witness: the flusher has taken a snapshot of one job and is about to
\* ask for a connection while none is idle and a later job is already pending.
C27_Witness ==
  /\ pc[Flusher] = "eb_call"
  /\ Len(frame[Flusher].payloads) = 1
  /\ Len(pending_jobs) = 1
  /\ slots = <<>>

\* the enqueue operations that hold a connection
Holders == {t \in Callers : client[t] # 0}

\* C28 (as claimed): the connection of the startup test is back in the pool
\* when requests are served, so a caller is kept waiting in pool.get() only
\* when max_size enqueue operations hold a connection each.
C28_WholePoolForEnqueue ==
  \A t \in Callers :
    (InGet(t) /\ ~CanGet) => (client[Main] = 0 /\ Cardinality(Holders) = max_size)

C29_Release ==
  \A t \in Callers :
    (client[t] # 0 /\ pc'[t] \in {"idle", "sleep"}) =>
      /\ client'[t] = 0
      /\ slots' = Append(slots, client[t])
      /\ size' = size

C29_NoneLost ==
  /\ \A t \in Callers : pc[t] \in {"idle", "sleep"} => client[t] = 0
  /\ Len(slots) + Cardinality(Holders) + 1 = size
  /\ (\A t \in Callers : pc[t] \in {"idle", "sleep"}) => Len(slots) = size - 1

\* C29: the step that ends a call of enqueue_job or enqueue_batch_jobs, with
\* Ok or with Err, puts the connection the call holds back among the idle
\* ones; no task holds a connection outside a call; and every connection
\* created is idle or held by a running call (or is main's test connection),
\* so that with no call running all but that one are idle, whatever failed.
C29_ReleasedOnEveryExit == [][C29_Release]_vars /\ []C29_NoneLost

\* C29 witness: after a failed acquisition and a failed write no call is
\* running and every connection the pool may create for callers is idle.
C29_Witness ==
  /\ \A t \in Callers : pc[t] \in {"idle", "sleep"}
  /\ acq_failed /\ write_failed
  /\ size = max_size /\ Len(slots) = max_size - 1

\* a step taken under the accumulator's lock changes nothing of the pool and
\* writes nothing to the broker (and so a step of pool.get() or of a write is
\* none under the lock)
C30_LockSteps ==
  pending_jobs' # pending_jobs => UNCHANGED <<client, slots, size, broker>>

\* a task that is about to take the lock can take it
C30_NeverBlocked ==
  /\ \A p \in Producers : pc[p] = "ab_add" => ENABLED BatchAdd(p)
  /\ \A p \in Producers : pc[p] = "ab_flush" => ENABLED BatchFlush(p)
  /\ (pc[Flusher] = "sleep" /\ timer = 0) => ENABLED FlusherWake

\* a task that waits for a connection or writes to the broker is in
\* enqueue_batch_jobs, past both critical sections
C30_Released ==
  \A t \in Callers :
    (frame[t].call \in {"auto", "flush"} /\ client[t] # 0) =>
      pc[t] \in {"eb_send", "eb_ret"}

\* C30: no step under the accumulator's lock touches the pool or the broker;
\* a task holds a connection only inside enqueue_batch_jobs, which it enters
\* after the lock is released; and add, flush and the flusher's turn under the
\* lock are possible whenever a task has come to them, whatever the state of
\* the pool and whoever is waiting for a connection or writing.
C30_LockNotHeldAcrossIo ==
  /\ [][C30_LockSteps]_vars
  /\ []C30_NeverBlocked
  /\ []C30_Released

\* C30 witness: a snapshot of two jobs is half written, another task waits for
\* a connection that the exhausted pool cannot give, and meanwhile a third job
\* was accepted into the accumulator and its caller answered.
C30_Witness ==
  /\ \E t \in Callers :
       pc[t] = "eb_send" /\ frame[t].sent = 1 /\ Len(frame[t].payloads) = 2
  /\ \E j \in Jobs : pending_jobs = <<j>> /\ returned_id[j] # 0
  /\ ~CanGet

\* ------------------------------------------------------------ job codec
\* a user of the crate builds a JobPayload: any variant around any MathArgs
Build(x) ==
  /\ cpc = "idle"
  /\ payload' = x
  /\ cpc' = "built"
  /\ UNCHANGED <<avars, wvars, svars, wire, parsed>>

\* Job::new(payload.job_type(), vec![payload.to_args()?]): the job that is
\* written to the broker
Encode ==
  /\ cpc = "built"
  /\ wire' = [tag |-> job_type(payload), args |-> << to_args(payload) >>]
  /\ cpc' = "encoded"
  /\ UNCHANGED <<avars, wvars, svars, payload, parsed>>

\* the queue holds a job that none of the API's handlers built
Foreign(job) ==
  /\ cpc = "idle"
  /\ wire' = job
  /\ cpc' = "encoded"
  /\ UNCHANGED <<avars, wvars, svars, payload, parsed>>

\* job_handler's decoding: the first argument, then from_job_type(kind, it)
Decode ==
  /\ cpc = "encoded"
  /\ parsed' = IF Len(wire.args) = 0 THEN ParseError
               ELSE from_job_type(wire.tag, wire.args[1])
  /\ cpc' = "decoded"
  /\ UNCHANGED <<avars, wvars, svars, payload, wire>>

\* one job from its construction to its decoding; the services stay as they
\* started
CodecInit == Init /\ auto_batch_enabled

CodecNext ==
  \/ \E x \in JobPayloads : Build(x)
  \/ Encode
  \/ \E job \in JobShapes : Foreign(job)
  \/ Decode

CodecSpec == CodecInit /\ [][CodecNext]_vars

\* C22 (as claimed): decoding what encoding made of a JobPayload gives that
\* JobPayload back: the same variant with equal a, b and request_id.
C22_RoundTrip ==
  (cpc = "decoded" /\ payload # NoPayload) => parsed = payload

\* the tag job_type gives the payloads of variant v
TagOf(v) == job_type([variant |-> v, args |-> CHOOSE m \in MathArgs : TRUE])

\* C26: job_type gives different variants different tags, and the payloads of
\* one variant the same tag; the tags it gives are exactly the registered
\* ones; a job built by the API carries the tag of its variant and, when it
\* decodes, decodes to that variant, and it fails to decode only for its
\* arguments; a job with any other tag does not decode.
C26_DispatchTotal ==
  /\ \A v, w \in Variants : TagOf(v) = TagOf(w) <=> v = w
  /\ {TagOf(v) : v \in Variants} = Registered
  /\ payload # NoPayload => job_type(payload) = TagOf(payload.variant)
  /\ (cpc \in {"encoded", "decoded"} /\ payload # NoPayload) =>
       wire.tag = TagOf(payload.variant)
  /\ (cpc = "decoded" /\ payload # NoPayload) =>
       IF is_math_args(wire.args[1])
         THEN parsed.variant = payload.variant
         ELSE parsed = ParseError
  /\ (cpc = "decoded" /\ wire.tag \notin Registered) => parsed = ParseError
  /\ (cpc = "decoded" /\ wire.tag \in Registered /\ Len(wire.args) = 1
        /\ is_math_args(wire.args[1])) =>
       (parsed # ParseError /\ TagOf(parsed.variant) = wire.tag)

\* C26 witness: a Divide payload was encoded and decoded to a Divide again.
C26_Witness ==
  /\ cpc = "decoded"
  /\ payload.variant = "Divide" /\ parsed.variant = "Divide"
  /\ wire.tag = "math_divide"

\* ------------------------------------------------------------ end of the API process
\* The API process ends: axum::serve returns and main after it, or a signal
\* ends the process (main installs no handler and serves without a graceful
\* shutdown).  Every task is dropped where it stands; no statement flushes the
\* accumulator or logs what it still holds.
Terminate ==
  /\ ~terminated
  /\ terminated' = TRUE
  /\ pc' = [t \in Callers |-> "dead"]
  /\ UNCHANGED <<cvars, wvars, drop_warned, auto_batch_enabled, pending_jobs, frame,
                 client, result, slots, size, broker, timer, next_job, next_id,
                 oldest_age, snap_count, returned_id, added, acq_failed, write_failed>>

\* the auto-batching pipeline of a process that ends at some moment
ShutdownNext ==
  \/ AutoBatchNext
  \/ Terminate

ShutdownSpec == AutoBatchInit /\ [][ShutdownNext]_vars

\* C23 (as claimed): when the API process has ended, the accumulator is empty
\* or a warning about the dropped pending jobs was logged.
C23_NoSilentLoss ==
  terminated => (pending_jobs = <<>> \/ drop_warned)

\* ------------------------------------------------------------ POST /jobs/batch
\* the batch endpoint alone (BATCH_AUTO_ENABLED=false); the flusher still runs
\* and finds the accumulator empty
BatchRequestInit == Init /\ ~auto_batch_enabled

BatchRequestNext ==
  \/ \E p \in Producers : \E n \in 0..MaxBatchLen : BatchHandler(p, n)
  \/ \E t \in Callers : BatchJobsGet(t)
  \/ \E t \in Callers : BatchJobsGetFail(t)
  \/ \E t \in Callers : BatchJobsSend(t)
  \/ \E t \in Callers : BatchJobsSendFail(t)
  \/ \E t \in Callers : BatchJobsReturn(t)
  \/ FlusherWake
  \/ Tick

BatchRequestSpec == BatchRequestInit /\ [][BatchRequestNext]_vars

\* the request of producer p is answered with the error for an empty batch
Rejects(p) == result[p] # "rejected" /\ result'[p] = "rejected"

C24_Rejected ==
  \A p \in Producers :
    Rejects(p) =>
      /\ pc[p] = "idle" /\ pc'[p] = "idle"
      /\ frame'[p] = EmptyFrame /\ client'[p] = 0
      /\ UNCHANGED <<frame, client, slots, size, pending_jobs, added, snap_count,
                     broker, next_id, next_job, returned_id>>

C24_NeverEmptyCall ==
  \A p \in Producers : frame[p].call = "batch" => Len(frame[p].payloads) >= 1

\* C24: the step that answers a batch request with the rejection starts no
\* call (the handler stays idle, without locals and without a connection) and
\* leaves pool, accumulator, broker and identifiers as they were; and
\* enqueue_batch_jobs is never called by batch_handler with an empty input.
C24_EmptyBatchRejected == [][C24_Rejected]_vars /\ []C24_NeverEmptyCall

\* C24 witness: an empty batch request was rejected while the only connection
\* left was in use by another producer's batch, half written.
C24_Witness ==
  \E p, q \in Producers :
    /\ result[p] = "rejected" /\ pc[p] = "idle"
    /\ pc[q] = "eb_send" /\ frame[q].sent = 1
    /\ slots = <<>> /\ size = max_size

\* ------------------------------------------------------------ failed submissions
C31_FailedWrite ==
  \A t \in Callers :
    (pc[t] = "eb_send" /\ WriteFails(t)) =>
      /\ SentOf(t) = InOrder(t, frame[t].sent, client[t])
      /\ broker' = broker
      /\ pc'[t] \in {"idle", "sleep"} /\ result'[t] = "err"
      /\ returned_id' = returned_id
      /\ \A j \in Range(frame[t].payloads) : returned_id[j] = 0

C31_NotLater ==
  \A j \in Jobs :
    (j < next_job /\ ~Held(j)) => Transmissions(j)' = Transmissions(j)

\* C31: when the write of the k-th job of a batch fails, the broker has
\* received of this batch exactly its first k-1 jobs, in input order; the
\* failing step writes nothing, ends the call with Err and hands back no
\* identifier for any job of the batch; and a job whose call is over is never
\* written afterwards.
C31_BatchNotAtomicOnFailure == [][C31_FailedWrite]_vars /\ [][C31_NotLater]_vars

\* C31 witness: a batch of two jobs ended with an error after its first job was
\* written and its second was not, while another request waits for a
\* connection.
C31_Witness ==
  /\ \E p \in Producers : pc[p] = "idle" /\ result[p] = "err"
  /\ ~acq_failed
  /\ Len(broker) = 1 /\ broker[1].job = 1
  /\ returned_id[1] = 0 /\ returned_id[2] = 0
  /\ \E q \in Producers : pc[q] = "eb_call" /\ frame[q].payloads = <<3>>

\* the call of enqueue_job_with_batching for job j has returned an error: the
\* job was added, no call holds it as its payload and no identifier was
\* handed back for it
AutoBatchFailed(j) ==
  /\ j \in added
  /\ \A p \in Producers : frame[p].payload # j
  /\ returned_id[j] = 0

\* C32 (as claimed): a job whose enqueue_job_with_batching call returned an
\* error has not been written to the broker, at the return or at any later
\* moment.
C32_ErrorMeansNotSent ==
  \A j \in Jobs : AutoBatchFailed(j) => ~Transmitted(j)

\* ------------------------------------------------------------ shutdown notification
\* notify_one() leaves a permit that stays until main consumes it in
\* shutdown.notified()
C33_PermitKept ==
  (sigtask = "done" /\ wphase \in {"connecting", "waiting"}) => permit

\* main, once at shutdown.notified() after a signal, goes on to the select
C33_LeavesWait ==
  (sigtask = "done" /\ wphase = "waiting") ~> (wphase = "draining")

\* a signal taken while connect() is pending is acted on as soon as main
\* reaches its wait, unless connect() fails and main returns its error
C33_FromConnecting ==
  (sigtask = "done" /\ wphase = "connecting") ~> (wphase \in {"draining", "failed"})

\* C33: the shutdown notification is never lost: a signal taken at any moment
\* after the signal task was started, the time before main waits for the
\* notification included, makes main leave shutdown.notified() and enter the
\* drain phase.
C33_NotificationNeverLost ==
  /\ []C33_PermitKept
  /\ C33_LeavesWait
  /\ C33_FromConnecting

\* C33 witness: the signal task has notified while connect() is still pending
\* and the permit waits for main.
C33_Witness ==
  /\ sigtask = "done"
  /\ wphase = "connecting"
  /\ permit

\* ------------------------------------------------------------ worker.run ends by itself
WorkerEnded == wrun \in {"ended_ok", "ended_err"}

\* an ended worker.run stays ended and fetches nothing; main leaves
\* shutdown.notified() only with the permit of a signal
C34_Stays ==
  /\ WorkerEnded => (wrun' = wrun /\ fetched' = fetched /\ inflight' = inflight)
  /\ (wphase = "waiting" /\ wphase' # "waiting") => (permit /\ sigtask = "done")
  /\ (wphase = "waiting" /\ wrun = "ended_err") => shutdown_report' = "none"

\* after the signal main reports how worker.run ended and returns
C34_ThenReports ==
  (wphase = "waiting" /\ wrun = "ended_err" /\ permit)
    ~> (wphase = "stopped" /\ shutdown_report = "error")

\* the report of a worker.run that ended with an error before the drain
C34_Report ==
  (wphase = "stopped" /\ wrun = "ended_err" /\ drain_clock < drain_deadline)
    => shutdown_report = "error"

\* C34: the worker process leaves its wait only on a termination signal: when
\* worker.run ends by itself with an error while Running and without a signal,
\* the process neither terminates nor starts the loop again; it stays, fetching
\* nothing, until a signal arrives, and then reports the worker error and
\* terminates.
C34_WaitsForSignalAfterWorkerError ==
  /\ [][C34_Stays]_vars
  /\ []C34_Report
  /\ C34_ThenReports

\* C34 witness: worker.run has ended with an error after fetching a job, no
\* signal has arrived and main is still in shutdown.notified().
C34_Witness ==
  /\ wrun = "ended_err"
  /\ wphase = "waiting"
  /\ sigtask = "listening"
  /\ ~permit
  /\ fetched > 0

=============================================================================
